---- MODULE Spec2Model ----
(***************************************************************************)
(* Tracking-link lifecycle of the Firestore-backed server (server.js,      *)
(* src/unnamed/part_001): POST /generate-link, POST /cancel-link,          *)
(* GET /track/:linkId, GET /api/track/:id, the hourly sweep, login/logout. *)
(*                                                                         *)
(* Every handler is an async function.  One action of the model is one     *)
(* store call (or upstream fetch) completing together with the synchronous *)
(* code that follows it up to the next await.  Handlers of different       *)
(* requests interleave at these awaits.                                    *)
(*                                                                         *)
(* The clock counts whole hours: one tick is 60 * 60 * 1000 ms.            *)
(*                                                                         *)
(* The in-memory server (src/unnamed/part_000) keeps the links in the Map  *)
(* trackingLinks and an index driverToLinkId; its handlers are the Mem     *)
(* actions and its specification is SpecMem.  The Firestore-backed server  *)
(* has no index: its actions leave driverToLinkId as it is.                *)
(***************************************************************************)
EXTENDS Integers, Sequences, FiniteSets, TLC

VARIABLES trackingLinks, now, req, sweep, sessionUser, driverToLinkId

vars == <<trackingLinks, now, req, sweep, sessionUser, driverToLinkId>>

(* ---------------------------- bounds ----------------------------------- *)

\* request handlers that may be in flight at once
MaxReq == 2
\* documents the collection can hold
MaxLinks == 2
\* last hour the clock reaches
MaxTime == 2

Req == 1..MaxReq
LinkIds == 1..MaxLinks

(* ---------------------------- inputs ----------------------------------- *)

\* Names of the drivers the upstream API lists when it answers.
LiveDrivers == {"Jane"}

\* driverName values a request body may carry ("" is a missing field).
DriverInputs == {"", "Jane", "Albert Davis (Demo)"}

\* expirationHours values a request body may carry ("" is a missing field).
HoursInputs == {"", "-1", "1"}

\* JavaScript truthiness of a string field: only the empty one is falsy.
Truthy(s) == s # ""

\* parseInt(expirationHours) on the inputs above.
ParseInt(s) ==
  CASE s = "-1" -> -1
    [] s = "1" -> 1
    [] OTHER -> 0

\* Names of the mock list that the catch branch of fetchDriversFromAPI
\* returns when the fetch fails.
MockDrivers == {"Albert Davis (Demo)"}

\* What one call of fetchDriversFromAPI can return: the names of the live
\* list, or of the mock list of its catch branch.
FetchResults == {LiveDrivers, MockDrivers}

\* Names of the mock list of the in-memory server's fetchDriversFromAPI.
MemMockDrivers == {"Albert Davis (Demo)", "Sarah Johnson (Demo)"}

\* What one call of the in-memory server's fetchDriversFromAPI can return.
MemFetchResults == {LiveDrivers, MemMockDrivers}

\* The names a key of driverToLinkId can be: a key is a driverName that
\* drivers.find has found in a fetched list.
DriverNames == LiveDrivers \cup MemMockDrivers

(* ---------------------------- store ------------------------------------ *)

\* A document of the trackingLinks collection as written by /generate-link;
\* exists is DocumentSnapshot.exists.
NewLink(driverName, createdAt, expiresAt) ==
  [exists |-> TRUE, driverName |-> driverName, createdAt |-> createdAt,
   expiresAt |-> expiresAt, createdBy |-> "admin", active |-> TRUE]

\* doc(id).get() of a document that was never written
NoData ==
  [exists |-> FALSE, driverName |-> "", createdAt |-> 0, expiresAt |-> 0,
   createdBy |-> "", active |-> FALSE]

\* the ids of the documents in the collection
Stored(store) == {id \in LinkIds : store[id].exists}

\* Variant of Deactivate: the update writes active: true.
DeactivateKeepsActive(store, id) == [store EXCEPT ![id].active = TRUE]

\* Variant of Deactivate: the document is deleted, as the in-memory server
\* deletes a link.
DeactivateDeletes(store, id) == [store EXCEPT ![id] = NoData]

\* doc.ref.update({ active: false })
Deactivate(store, id) == [store EXCEPT ![id].active = FALSE]

RECURSIVE Perms(_)
\* the sequences that list every element of S once
Perms(S) ==
  IF S = {} THEN {<<>>}
  ELSE UNION {{<<x>> \o p : p \in Perms(S \ {x})} : x \in S}

\* The orders in which a query can return the documents S.  Firestore orders
\* a snapshot by the field of an inequality filter and then by document id;
\* document ids are random uuids, so their order is unrelated to the order
\* of creation and any order of the ids is possible.
Snapshots(S, key) ==
  {p \in Perms(S) :
     \A i \in 1..Len(p) : \A j \in i..Len(p) : key[p[i]] <= key[p[j]]}

\* .where('driverName', '==', driverName).where('active', '==', true).get()
ActiveLinksOf(store, driverName) ==
  Snapshots({id \in Stored(store) :
               store[id].driverName = driverName /\ store[id].active},
            [id \in LinkIds |-> 0])

\* Variant of ExpiredActive: the filter is expiresAt <= now.
ExpiredActiveInclusive(store, t) ==
  Snapshots({id \in Stored(store) :
               store[id].expiresAt <= t /\ store[id].active},
            [id \in LinkIds |-> store[id].expiresAt])

\* .where('expiresAt', '<', now).where('active', '==', true).get()
ExpiredActive(store, t) ==
  Snapshots({id \in Stored(store) :
               store[id].expiresAt < t /\ store[id].active},
            [id \in LinkIds |-> store[id].expiresAt])

(* ---------------------------- requests --------------------------------- *)

\* The locals of a handler: drivers is what fetchDriversFromAPI returned to
\* it ({} while it has not been called), docs and i are the snapshot and the
\* position of the loop over it, link is the document read by a public
\* route; threw says that a store call of this handler threw.
Idle ==
  [op |-> "none", pc |-> "idle", driverName |-> "", hours |-> "",
   linkId |-> 0, drivers |-> {}, docs |-> <<>>, i |-> 0, link |-> NoData,
   at |-> 0, status |-> 0, body |-> "", overlap |-> FALSE, threw |-> FALSE]

\* res.status(s).json / send / render / redirect: the handler is over.
Respond(q, s, b) == [q EXCEPT !.pc = "done", !.status = s, !.body = b]

InFlight(q) == q.pc \notin {"idle", "done"}

\* The process dies: open connections are dropped without a response.
Dropped(q) == IF InFlight(q) THEN Respond(q, 0, "") ELSE q

SweepIdle ==
  [pc |-> "idle", now |-> 0, docs |-> <<>>, i |-> 0,
   pre |-> [id \in LinkIds |-> NoData], failed |-> {}, clean |-> FALSE,
   rerun |-> FALSE]

SweepRunning == sweep.pc \in {"query", "update"}

\* The sweep callback ends with the process when the process dies.
SweepDropped ==
  IF SweepRunning THEN [sweep EXCEPT !.pc = "done", !.clean = FALSE] ELSE sweep

Init ==
  /\ trackingLinks = [id \in LinkIds |-> NoData]
  /\ now = 0
  /\ req = [r \in Req |-> Idle]
  /\ sweep = SweepIdle
  /\ sessionUser = FALSE
  /\ driverToLinkId = [d \in DriverNames |-> 0]


(* ---------------------------- clock and session ------------------------ *)

Tick ==
  /\ now < MaxTime
  /\ now' = now + 1
  /\ sweep' = IF sweep.pc = "idle" THEN [sweep EXCEPT !.rerun = FALSE]
                                    ELSE sweep
  /\ UNCHANGED <<trackingLinks, req, sessionUser, driverToLinkId>>

\* POST /login: ok says whether username and password match the configured
\* pair.
Login(ok) ==
  /\ sessionUser' = IF ok THEN TRUE ELSE sessionUser
  /\ UNCHANGED <<trackingLinks, now, req, sweep, driverToLinkId>>

\* POST /logout
Logout ==
  /\ sessionUser' = FALSE
  /\ UNCHANGED <<trackingLinks, now, req, sweep, driverToLinkId>>

\* Variant of RequireAuth: a session cookie is accepted whether or not the
\* store still has its session.
RequireAuthCookieOnly(cookie) == cookie

\* requireAuth: cookie says whether the request carries the session cookie.
RequireAuth(cookie) == cookie /\ sessionUser

(* ---------------------------- failures --------------------------------- *)

\* A rejected promise nobody catches.  Node 18 ends the process on it: open
\* requests get no response, the in-memory sessions are gone and the timer
\* callback in progress stops; the restarted process serves again.
ProcessDies ==
  /\ req' = [q \in Req |-> Dropped(req[q])]
  /\ sweep' = SweepDropped
  /\ sessionUser' = FALSE

\* A store call of a route handler without try/catch throws.  Express 5
\* forwards the rejection to the error middleware (500 'Something broke!');
\* Express 4 leaves it unhandled.  package.json is not part of the sources,
\* so both outcomes are possible.
Unhandled(r) ==
  \/ /\ req' = [req EXCEPT ![r] =
                  Respond([@ EXCEPT !.threw = TRUE], 500, "Something broke!")]
     /\ UNCHANGED <<sweep, sessionUser, driverToLinkId>>
  \/ /\ req' = [q \in Req |->
                  IF q = r THEN Respond([req[q] EXCEPT !.threw = TRUE], 0, "")
                           ELSE Dropped(req[q])]
     /\ sweep' = SweepDropped
     /\ sessionUser' = FALSE

(* ---------------------------- POST /generate-link ---------------------- *)

FreeIds == LinkIds \ Stored(trackingLinks)

\* uuidv4(): an identifier no document has yet.
FreshId == CHOOSE id \in FreeIds : \A other \in FreeIds : id <= other

Generating == {q \in Req : req[q].op = "generate" /\ InFlight(req[q])}

\* Variant of StartGenerate: the active links of the driver are invalidated
\* before the driver is looked up in the upstream list.
StartGenerateInvalidatesFirst(r, driverName, expirationHours, cookie, drivers) ==
  /\ req[r].pc = "idle"
  /\ Cardinality(Generating) < Cardinality(FreeIds)
  /\ IF ~RequireAuth(cookie)
       THEN /\ req' = [req EXCEPT ![r] =
                         Respond([Idle EXCEPT !.op = "generate"], 302, "/login")]
            /\ UNCHANGED trackingLinks
     ELSE IF ~Truthy(driverName) \/ ~Truthy(expirationHours)
       THEN /\ req' = [req EXCEPT ![r] =
                         Respond([Idle EXCEPT !.op = "generate"],
                                 400, "Missing fields")]
            /\ UNCHANGED trackingLinks
     ELSE IF driverName \notin drivers
       THEN /\ req' = [req EXCEPT ![r] =
                         Respond([Idle EXCEPT !.op = "generate",
                                              !.driverName = driverName,
                                              !.hours = expirationHours,
                                              !.drivers = drivers],
                                 404, "Driver not found")]
            /\ trackingLinks' =
                 [id \in LinkIds |->
                    IF trackingLinks[id].driverName = driverName
                      THEN [trackingLinks[id] EXCEPT !.active = FALSE]
                      ELSE trackingLinks[id]]
     ELSE /\ req' = [req EXCEPT ![r] =
                       [Idle EXCEPT !.op = "generate", !.pc = "query",
                                    !.driverName = driverName,
                                    !.hours = expirationHours,
                                    !.drivers = drivers]]
          /\ UNCHANGED trackingLinks
  /\ UNCHANGED <<now, sweep, sessionUser, driverToLinkId>>

\* requireAuth, the check of the two fields, and fetchDriversFromAPI with
\* the search for the driver: drivers is what the fetch returns.  Nothing
\* of the store is read before the query that follows.
StartGenerate(r, driverName, expirationHours, cookie, drivers) ==
  /\ req[r].pc = "idle"
  /\ Cardinality(Generating) < Cardinality(FreeIds)
  /\ IF ~RequireAuth(cookie)
       THEN req' = [req EXCEPT ![r] =
                      Respond([Idle EXCEPT !.op = "generate"], 302, "/login")]
     ELSE IF ~Truthy(driverName) \/ ~Truthy(expirationHours)
       THEN req' = [req EXCEPT ![r] =
                      Respond([Idle EXCEPT !.op = "generate"], 400, "Missing fields")]
     ELSE IF driverName \notin drivers
       THEN req' = [req EXCEPT ![r] =
                      Respond([Idle EXCEPT !.op = "generate",
                                           !.driverName = driverName,
                                           !.hours = expirationHours,
                                           !.drivers = drivers],
                              404, "Driver not found")]
     ELSE req' = [q \in Req |->
                    IF q = r
                      THEN [Idle EXCEPT !.op = "generate", !.pc = "query",
                                        !.driverName = driverName,
                                        !.hours = expirationHours,
                                        !.drivers = drivers]
                    ELSE IF req[q].op = "cancel" /\ InFlight(req[q])
                            /\ req[q].driverName = driverName
                      THEN [req[q] EXCEPT !.overlap = TRUE]
                    ELSE req[q]]
  /\ UNCHANGED <<trackingLinks, now, sweep, sessionUser, driverToLinkId>>

\* Variant of GenerateFailed: the catch branch sets active: true again on the
\* records the loop has deactivated.
GenerateFailedRollsBack(r) ==
  /\ req' = [req EXCEPT ![r] =
               Respond([@ EXCEPT !.threw = TRUE],
                       500, "Failed to generate tracking link")]
  /\ trackingLinks' =
       [id \in LinkIds |->
          IF \E k \in 1..Len(req[r].docs) : k < req[r].i /\ req[r].docs[k] = id
            THEN [trackingLinks[id] EXCEPT !.active = TRUE]
            ELSE trackingLinks[id]]
  /\ UNCHANGED <<now, sweep, sessionUser, driverToLinkId>>

\* catch (error) of the handler
GenerateFailed(r) ==
  /\ req' = [req EXCEPT ![r] =
               Respond([@ EXCEPT !.threw = TRUE],
                       500, "Failed to generate tracking link")]
  /\ UNCHANGED <<trackingLinks, now, sweep, sessionUser, driverToLinkId>>

\* The loop over existing.docs is over: linkId and expirationTime are
\* computed (at is the Date.now() they are computed from) and set() is called.
AfterLoop(q, docs, i) ==
  IF i > Len(docs)
    THEN [q EXCEPT !.pc = "set", !.docs = docs, !.i = i, !.at = now]
    ELSE [q EXCEPT !.pc = "update", !.docs = docs, !.i = i]

\* the query of lines 105-108 returns its snapshot
GenerateQueryReturns(r) ==
  /\ req[r].op = "generate" /\ req[r].pc = "query"
  /\ \E docs \in ActiveLinksOf(trackingLinks, req[r].driverName) :
       req' = [req EXCEPT ![r] = AfterLoop(@, docs, 1)]
  /\ UNCHANGED <<trackingLinks, now, sweep, sessionUser, driverToLinkId>>

GenerateQuery(r) ==
  \/ GenerateQueryReturns(r)
  \/ /\ req[r].op = "generate" /\ req[r].pc = "query"
     /\ GenerateFailed(r)

\* Variant of GenerateUpdate: the loop runs without writing.
GenerateUpdateSkips(r) ==
  /\ req[r].op = "generate" /\ req[r].pc = "update"
  /\ req' = [req EXCEPT ![r] = AfterLoop(@, @.docs, @.i + 1)]
  /\ UNCHANGED <<trackingLinks, now, sweep, sessionUser, driverToLinkId>>

\* one update of the loop of lines 110-112 returns
GenerateUpdateReturns(r) ==
  /\ req[r].op = "generate" /\ req[r].pc = "update"
  /\ trackingLinks' = Deactivate(trackingLinks, req[r].docs[req[r].i])
  /\ req' = [req EXCEPT ![r] = AfterLoop(@, @.docs, @.i + 1)]
  /\ UNCHANGED <<now, sweep, sessionUser, driverToLinkId>>

GenerateUpdate(r) ==
  \/ GenerateUpdateReturns(r)
  \/ /\ req[r].op = "generate" /\ req[r].pc = "update"
     /\ GenerateFailed(r)

\* Variant of GenerateSet: the insert runs in a transaction that deactivates
\* the active records of the driver.
GenerateSetTransactional(r) ==
  /\ req[r].op = "generate" /\ req[r].pc = "set"
  /\ LET linkId == FreshId IN
       /\ trackingLinks' =
            [id \in LinkIds |->
               IF id = linkId
                 THEN NewLink(req[r].driverName, req[r].at,
                              req[r].at + ParseInt(req[r].hours))
               ELSE IF trackingLinks[id].driverName = req[r].driverName
                 THEN [trackingLinks[id] EXCEPT !.active = FALSE]
               ELSE trackingLinks[id]]
       /\ req' = [req EXCEPT ![r] =
                    Respond([@ EXCEPT !.linkId = linkId], 200, "success")]
       /\ sweep' = [sweep EXCEPT !.rerun = FALSE, !.clean = FALSE]
       /\ UNCHANGED <<now, sessionUser, driverToLinkId>>

\* the set() of lines 117-123 returns and the handler answers
GenerateSetReturns(r) ==
  /\ req[r].op = "generate" /\ req[r].pc = "set"
  /\ LET linkId == FreshId IN
       /\ trackingLinks' =
            [trackingLinks EXCEPT ![linkId] =
               NewLink(req[r].driverName, req[r].at,
                       req[r].at + ParseInt(req[r].hours))]
       /\ req' = [req EXCEPT ![r] =
                    Respond([@ EXCEPT !.linkId = linkId], 200, "success")]
       /\ sweep' = [sweep EXCEPT !.rerun = FALSE, !.clean = FALSE]
       /\ UNCHANGED <<now, sessionUser, driverToLinkId>>

GenerateSet(r) ==
  \/ GenerateSetReturns(r)
  \/ /\ req[r].op = "generate" /\ req[r].pc = "set"
     /\ GenerateFailed(r)

(* ---------------------------- POST /cancel-link ------------------------ *)

StartCancel(r, driverName, cookie) ==
  /\ req[r].pc = "idle"
  /\ req' = [req EXCEPT ![r] =
               IF ~RequireAuth(cookie)
                 THEN Respond([Idle EXCEPT !.op = "cancel"], 302, "/login")
                 ELSE [Idle EXCEPT !.op = "cancel", !.pc = "query",
                                   !.driverName = driverName,
                                   !.overlap =
                                      \E q \in Generating :
                                         req[q].driverName = driverName]]
  /\ UNCHANGED <<trackingLinks, now, sweep, sessionUser, driverToLinkId>>

\* Variant of CancelQuery: an empty snapshot is answered with success.
CancelQueryAlwaysOk(r) ==
  /\ req[r].op = "cancel" /\ req[r].pc = "query"
  /\ \E docs \in ActiveLinksOf(trackingLinks, req[r].driverName) :
       req' = [req EXCEPT ![r] =
                 IF docs = <<>>
                   THEN Respond(@, 200, "success")
                   ELSE [@ EXCEPT !.pc = "update", !.docs = docs, !.i = 1]]
  /\ UNCHANGED <<trackingLinks, now, sweep, sessionUser, driverToLinkId>>

\* the query of lines 139-142 returns its snapshot
CancelQueryReturns(r) ==
  /\ req[r].op = "cancel" /\ req[r].pc = "query"
  /\ \E docs \in ActiveLinksOf(trackingLinks, req[r].driverName) :
       req' = [req EXCEPT ![r] =
                 IF docs = <<>>
                   THEN Respond(@, 404, "No active tracking link")
                   ELSE [@ EXCEPT !.pc = "update", !.docs = docs, !.i = 1]]
  /\ UNCHANGED <<trackingLinks, now, sweep, sessionUser, driverToLinkId>>

CancelQuery(r) ==
  \/ CancelQueryReturns(r)
  \/ /\ req[r].op = "cancel" /\ req[r].pc = "query"
     /\ Unhandled(r)
     /\ UNCHANGED <<trackingLinks, now, driverToLinkId>>

\* Variant of CancelUpdate: the handler answers after the first update.
CancelUpdateFirstOnly(r) ==
  /\ req[r].op = "cancel" /\ req[r].pc = "update"
  /\ trackingLinks' = Deactivate(trackingLinks, req[r].docs[req[r].i])
  /\ req' = [req EXCEPT ![r] = Respond([@ EXCEPT !.i = @ + 1], 200, "success")]
  /\ UNCHANGED <<now, sweep, sessionUser, driverToLinkId>>

\* one update of the loop of lines 146-148 returns
CancelUpdateReturns(r) ==
  /\ req[r].op = "cancel" /\ req[r].pc = "update"
  /\ trackingLinks' = Deactivate(trackingLinks, req[r].docs[req[r].i])
  /\ req' = [req EXCEPT ![r] =
               IF @.i = Len(@.docs)
                 THEN Respond([@ EXCEPT !.i = @ + 1], 200, "success")
                 ELSE [@ EXCEPT !.i = @ + 1]]
  /\ UNCHANGED <<now, sweep, sessionUser, driverToLinkId>>

CancelUpdate(r) ==
  \/ CancelUpdateReturns(r)
  \/ /\ req[r].op = "cancel" /\ req[r].pc = "update"
     /\ Unhandled(r)
     /\ UNCHANGED <<trackingLinks, now, driverToLinkId>>

(* ---------------------------- GET /track, GET /api/track --------------- *)

Routes == {"track", "apiTrack"}

StartTrack(r, route, linkId) ==
  /\ req[r].pc = "idle"
  /\ req' = [req EXCEPT ![r] =
               [Idle EXCEPT !.op = route, !.pc = "get", !.linkId = linkId]]
  /\ UNCHANGED <<trackingLinks, now, sweep, sessionUser, driverToLinkId>>

\* Variant of Resolve: expiry is decided by the active flag alone.
ResolveByFlag(q, doc, drivers) ==
  LET read == [q EXCEPT !.link = doc, !.at = now]
      fetched == [read EXCEPT !.drivers = drivers] IN
  IF ~doc.exists THEN Respond(q, 403, "Invalid or expired link")
  ELSE IF ~doc.active THEN Respond(read, 403, "Link expired or inactive")
  ELSE IF doc.driverName \notin drivers
    THEN Respond(fetched, 200, "Driver data missing")
  ELSE Respond(fetched, 200, "driver")

\* Variant of Resolve: the handlers do not look at doc.exists.
ResolveSkipsExists(q, doc, drivers) ==
  LET read == [q EXCEPT !.link = doc, !.at = now]
      fetched == [read EXCEPT !.drivers = drivers] IN
  IF q.op = "track"
    THEN IF ~doc.active \/ now > doc.expiresAt
           THEN Respond(read, 403, "Link expired or inactive")
         ELSE IF doc.driverName \notin drivers
           THEN Respond(fetched, 200, "Driver data missing")
         ELSE Respond(fetched, 200, "driver")
    ELSE IF now > doc.expiresAt
           THEN Respond(read, 404, "Expired link")
         ELSE IF doc.driverName \notin drivers
           THEN Respond(fetched, 404, "Driver not found")
         ELSE Respond(fetched, 200, "driver")

\* What the two handlers do with the document doc.get() returned: at is
\* new Date(), drivers is what fetchDriversFromAPI returns when it is
\* reached.  The fetch reads nothing of the store, so the response is
\* decided when the document has been read.
Resolve(q, doc, drivers) ==
  LET read == [q EXCEPT !.link = doc, !.at = now]
      fetched == [read EXCEPT !.drivers = drivers] IN
  IF q.op = "track"
    THEN IF ~doc.exists THEN Respond(q, 403, "Invalid or expired link")
         ELSE IF ~doc.active \/ now > doc.expiresAt
           THEN Respond(read, 403, "Link expired or inactive")
         ELSE IF doc.driverName \notin drivers
           THEN Respond(fetched, 200, "Driver data missing")
         ELSE Respond(fetched, 200, "driver")
    ELSE IF ~doc.exists THEN Respond(q, 404, "Invalid link")
         ELSE IF now > doc.expiresAt
           THEN Respond(read, 404, "Expired link")
         ELSE IF doc.driverName \notin drivers
           THEN Respond(fetched, 404, "Driver not found")
         ELSE Respond(fetched, 200, "driver")

\* Variant of TrackGet: a record found past its expiresAt is deactivated by
\* the route that found it.
TrackGetDeactivatesExpired(r) ==
  /\ req[r].op \in Routes /\ req[r].pc = "get"
  /\ \/ /\ \E drivers \in FetchResults :
             req' = [req EXCEPT ![r] =
                       Resolve(@, trackingLinks[@.linkId], drivers)]
        /\ trackingLinks' =
             IF /\ trackingLinks[req[r].linkId].exists
                /\ now > trackingLinks[req[r].linkId].expiresAt
               THEN Deactivate(trackingLinks, req[r].linkId)
               ELSE trackingLinks
        /\ UNCHANGED <<now, sweep, sessionUser, driverToLinkId>>
     \/ /\ Unhandled(r)
        /\ UNCHANGED <<trackingLinks, now, driverToLinkId>>

TrackGet(r) ==
  /\ req[r].op \in Routes /\ req[r].pc = "get"
  /\ \/ /\ \E drivers \in FetchResults :
             req' = [req EXCEPT ![r] =
                       Resolve(@, trackingLinks[@.linkId], drivers)]
        /\ UNCHANGED <<trackingLinks, now, sweep, sessionUser, driverToLinkId>>
     \/ /\ Unhandled(r)
        /\ UNCHANGED <<trackingLinks, now, driverToLinkId>>

\* The response has been delivered; the slot serves the next request.
Finish(r) ==
  /\ req[r].pc = "done"
  /\ req' = [req EXCEPT ![r] = Idle]
  /\ UNCHANGED <<trackingLinks, now, sweep, sessionUser, driverToLinkId>>

(* ---------------------------- hourly sweep ----------------------------- *)

\* The timer fires: now = new Date() and the query is issued.  A run is over
\* long before the next hour's firing, so runs do not overlap each other.
SweepFire ==
  /\ sweep.pc = "idle"
  /\ sweep' = [SweepIdle EXCEPT !.pc = "query", !.now = now, !.clean = TRUE,
                                !.rerun = sweep.rerun]
  /\ UNCHANGED <<trackingLinks, now, req, sessionUser, driverToLinkId>>

\* the query of lines 209-212 returns its snapshot
SweepQueryReturns ==
  /\ sweep.pc = "query"
  /\ \E docs \in ExpiredActive(trackingLinks, sweep.now) :
       sweep' = [sweep EXCEPT !.docs = docs, !.i = 1,
                              !.pre = trackingLinks,
                              !.pc = IF docs = <<>> THEN "done" ELSE "update"]
  /\ UNCHANGED <<trackingLinks, now, req, sessionUser, driverToLinkId>>

SweepQuery ==
  \/ SweepQueryReturns
  \/ /\ sweep.pc = "query"
     /\ ProcessDies
     /\ UNCHANGED <<trackingLinks, now, driverToLinkId>>

\* Variant of SweepUpdateReturns: the loop goes on without writing.
SweepUpdateLogsOnly ==
  /\ sweep.pc = "update"
  /\ sweep' = [sweep EXCEPT !.i = @ + 1,
                            !.pc = IF sweep.i = Len(sweep.docs)
                                     THEN "done" ELSE "update"]
  /\ UNCHANGED <<trackingLinks, now, req, sessionUser, driverToLinkId>>

\* one update of the loop of lines 214-217 returns
SweepUpdateReturns ==
  /\ sweep.pc = "update"
  /\ trackingLinks' = Deactivate(trackingLinks, sweep.docs[sweep.i])
  /\ sweep' = [sweep EXCEPT !.i = @ + 1,
                            !.pc = IF sweep.i = Len(sweep.docs)
                                     THEN "done" ELSE "update"]
  /\ UNCHANGED <<now, req, sessionUser, driverToLinkId>>

SweepUpdate ==
  \/ SweepUpdateReturns
  \/ /\ sweep.pc = "update"
     /\ req' = [q \in Req |-> Dropped(req[q])]
     /\ sweep' = [sweep EXCEPT !.pc = "done", !.clean = FALSE,
                               !.failed = @ \cup {sweep.docs[sweep.i]}]
     /\ sessionUser' = FALSE
     /\ UNCHANGED <<trackingLinks, now, driverToLinkId>>

\* The callback has returned (or the process has restarted): the timer is
\* armed again.  rerun says that the run ended normally and that no link
\* was inserted and the clock has not advanced since: a run that starts now
\* follows it immediately.
SweepReturn ==
  /\ sweep.pc = "done"
  /\ sweep' = [SweepIdle EXCEPT !.rerun = (sweep.clean /\ sweep.now = now)]
  /\ UNCHANGED <<trackingLinks, now, req, sessionUser, driverToLinkId>>

(* ---------------------------- in-memory server ------------------------- *)

\* A value of the Map trackingLinks as POST /generate-link sets it; exists
\* says that the Map has the key.
MemLink(driverName, createdAt, expiresAt) ==
  [exists |-> TRUE, driverName |-> driverName, createdAt |-> createdAt,
   expiresAt |-> expiresAt, createdBy |-> "admin"]

\* driverToLinkId.get(driverName): 0 is undefined
Lookup(index, driverName) ==
  IF driverName \in DriverNames THEN index[driverName] ELSE 0

\* driverToLinkId.delete(driverName)
Unindex(index, driverName) ==
  [d \in DriverNames |-> IF d = driverName THEN 0 ELSE index[d]]

MemGenerating == {q \in Req : req[q].op = "generate" /\ req[q].pc = "fetch"}

\* POST /generate-link up to its only await: requireAuth, the check of the
\* two fields, and the call of fetchDriversFromAPI.  overlap says that
\* another generate-link for the same driver is waiting for its fetch.
MemStartGenerate(r, driverName, expirationHours, cookie) ==
  /\ req[r].pc = "idle"
  /\ Cardinality(MemGenerating) < Cardinality(FreeIds)
  /\ IF ~RequireAuth(cookie)
       THEN req' = [req EXCEPT ![r] =
                      Respond([Idle EXCEPT !.op = "generate"], 302, "/login")]
     ELSE IF ~Truthy(driverName) \/ ~Truthy(expirationHours)
       THEN req' = [req EXCEPT ![r] =
                      Respond([Idle EXCEPT !.op = "generate"], 400,
                              "Driver name and expiration time are required")]
     ELSE req' = [q \in Req |->
                    IF q = r
                      THEN [Idle EXCEPT !.op = "generate", !.pc = "fetch",
                                        !.driverName = driverName,
                                        !.hours = expirationHours,
                                        !.overlap =
                                           \E g \in MemGenerating :
                                              req[g].driverName = driverName]
                    ELSE IF q \in MemGenerating
                            /\ req[q].driverName = driverName
                      THEN [req[q] EXCEPT !.overlap = TRUE]
                    ELSE req[q]]
  /\ UNCHANGED <<trackingLinks, now, sweep, sessionUser, driverToLinkId>>

\* The fetch has returned drivers: the rest of the handler runs without an
\* await.  A link of the driver that is not yet expired rejects the request;
\* an expired one is deleted from both maps before the new link is set.
MemGenerateResume(r, drivers) ==
  /\ req[r].op = "generate" /\ req[r].pc = "fetch"
  /\ LET driverName == req[r].driverName
         q == [req[r] EXCEPT !.drivers = drivers, !.at = now]
         existingLinkId == Lookup(driverToLinkId, driverName)
         existing == IF existingLinkId = 0 THEN NoData
                                           ELSE trackingLinks[existingLinkId]
         linkId == FreshId
     IN
       IF driverName \notin drivers
         THEN /\ req' = [req EXCEPT ![r] = Respond(q, 404, "Driver not found")]
              /\ UNCHANGED <<trackingLinks, driverToLinkId>>
       ELSE IF existingLinkId # 0 /\ existing.exists /\ now < existing.expiresAt
         THEN /\ req' = [req EXCEPT ![r] =
                           Respond([q EXCEPT !.linkId = existingLinkId], 400,
                                   "Tracking link already exists for this driver")]
              /\ UNCHANGED <<trackingLinks, driverToLinkId>>
       ELSE /\ trackingLinks' =
                 [id \in LinkIds |->
                    IF id = linkId
                      THEN MemLink(driverName, now,
                                   now + ParseInt(req[r].hours))
                    ELSE IF id = existingLinkId THEN NoData
                    ELSE trackingLinks[id]]
            /\ driverToLinkId' =
                 [d \in DriverNames |->
                    IF d = driverName THEN linkId ELSE driverToLinkId[d]]
            /\ req' = [req EXCEPT ![r] =
                         Respond([q EXCEPT !.linkId = linkId], 200, "success")]
  /\ UNCHANGED <<now, sweep, sessionUser>>

\* POST /cancel-link: the handler has no await.
MemCancel(r, driverName, cookie) ==
  /\ req[r].pc = "idle"
  /\ LET q == [Idle EXCEPT !.op = "cancel", !.driverName = driverName]
         linkId == Lookup(driverToLinkId, driverName)
     IN
       IF ~RequireAuth(cookie)
         THEN /\ req' = [req EXCEPT ![r] =
                           Respond([Idle EXCEPT !.op = "cancel"], 302, "/login")]
              /\ UNCHANGED <<trackingLinks, driverToLinkId>>
       ELSE IF linkId = 0 \/ ~trackingLinks[linkId].exists
         THEN /\ req' = [req EXCEPT ![r] =
                           Respond(q, 404,
                                   "No active tracking link found for this driver")]
              /\ UNCHANGED <<trackingLinks, driverToLinkId>>
       ELSE /\ trackingLinks' = [trackingLinks EXCEPT ![linkId] = NoData]
            /\ driverToLinkId' = Unindex(driverToLinkId, driverName)
            /\ req' = [req EXCEPT ![r] =
                         Respond([q EXCEPT !.linkId = linkId], 200, "success")]
  /\ UNCHANGED <<now, sweep, sessionUser>>

\* the links the cleanup deletes at time t
MemExpired(t) == {id \in Stored(trackingLinks) : t > trackingLinks[id].expiresAt}

\* Variant of MemCleanup: the links are deleted and the index is kept.
MemCleanupKeepsIndex ==
  /\ MemExpired(now) # {}
  /\ trackingLinks' =
       [id \in LinkIds |->
          IF id \in MemExpired(now) THEN NoData ELSE trackingLinks[id]]
  /\ UNCHANGED <<now, req, sweep, sessionUser, driverToLinkId>>

\* The hourly cleanup: a loop without an await that deletes every link with
\* now > expiresAt and the index entry of its driverName.  A firing that
\* finds nothing to delete changes nothing.
MemCleanup ==
  /\ MemExpired(now) # {}
  /\ trackingLinks' =
       [id \in LinkIds |->
          IF id \in MemExpired(now) THEN NoData ELSE trackingLinks[id]]
  /\ driverToLinkId' =
       [d \in DriverNames |->
          IF \E id \in MemExpired(now) : trackingLinks[id].driverName = d
            THEN 0 ELSE driverToLinkId[d]]
  /\ UNCHANGED <<now, req, sweep, sessionUser>>

(* ---------------------------- specifications --------------------------- *)

\* A new request is served by the lowest free slot.
FreeSlot(r) == \A q \in Req : q < r => req[q].pc # "idle"

\* A handler or a sweep run has just ended.  An ended handler does nothing
\* more, so the state in which it has just ended is observed (Finish,
\* SweepReturn) before any other step is taken.
Ended == sweep.pc = "done" \/ \E r \in Req : req[r].pc = "done"

\* The handlers that write the store and the sweep interleave at their
\* awaits.  The requests are for one driver and one duration: the
\* interleavings are what is explored.
Next ==
  \/ \E r \in Req : Finish(r)
  \/ SweepReturn
  \/ ~Ended /\ Tick
  \/ ~Ended /\ \E ok \in BOOLEAN : Login(ok)
  \/ ~Ended /\ Logout
  \/ ~Ended /\ \E r \in Req, cookie \in BOOLEAN, drivers \in FetchResults :
                 FreeSlot(r) /\ StartGenerate(r, "Jane", "1", cookie, drivers)
  \/ ~Ended /\ \E r \in Req : GenerateQuery(r)
  \/ ~Ended /\ \E r \in Req : GenerateUpdate(r)
  \/ ~Ended /\ \E r \in Req : GenerateSet(r)
  \/ ~Ended /\ \E r \in Req, cookie \in BOOLEAN :
                 FreeSlot(r) /\ StartCancel(r, "Jane", cookie)
  \/ ~Ended /\ \E r \in Req : CancelQuery(r)
  \/ ~Ended /\ \E r \in Req : CancelUpdate(r)
  \/ ~Ended /\ SweepFire
  \/ ~Ended /\ SweepQuery
  \/ ~Ended /\ SweepUpdate

Spec == Init /\ [][Next]_vars

\* No handler and no sweep is in progress.
Quiet == sweep.pc = "idle" /\ \A r \in Req : req[r].pc = "idle"

\* Operations do not overlap: one starts only when nothing is in progress.
\* The requests carry every input, and the public routes are served.
NextSeq ==
  \/ \E r \in Req : Finish(r)
  \/ SweepReturn
  \/ ~Ended /\ Tick
  \/ ~Ended /\ \E ok \in BOOLEAN : Login(ok)
  \/ ~Ended /\ Logout
  \/ Quiet /\ \E r \in Req, d \in DriverInputs, h \in HoursInputs,
                cookie \in BOOLEAN, drivers \in FetchResults :
                FreeSlot(r) /\ StartGenerate(r, d, h, cookie, drivers)
  \/ ~Ended /\ \E r \in Req : GenerateQuery(r)
  \/ ~Ended /\ \E r \in Req : GenerateUpdate(r)
  \/ ~Ended /\ \E r \in Req : GenerateSet(r)
  \/ Quiet /\ \E r \in Req, d \in DriverInputs, cookie \in BOOLEAN :
                FreeSlot(r) /\ StartCancel(r, d, cookie)
  \/ ~Ended /\ \E r \in Req : CancelQuery(r)
  \/ ~Ended /\ \E r \in Req : CancelUpdate(r)
  \/ Quiet /\ \E r \in Req, route \in Routes, linkId \in LinkIds :
                FreeSlot(r) /\ StartTrack(r, route, linkId)
  \/ ~Ended /\ \E r \in Req : TrackGet(r)
  \/ Quiet /\ SweepFire
  \/ ~Ended /\ SweepQuery
  \/ ~Ended /\ SweepUpdate

SpecSeq == Init /\ [][NextSeq]_vars

\* No store call fails.  The createLink handlers and the sweep interleave at
\* their awaits as in Next; a cancelLink starts when no other handler is in
\* flight (it only sets active to false, which is what the sweep does).
NextLive ==
  \/ \E r \in Req : Finish(r)
  \/ SweepReturn
  \/ ~Ended /\ Tick
  \/ ~Ended /\ \E ok \in BOOLEAN : Login(ok)
  \/ ~Ended /\ Logout
  \/ ~Ended /\ \E r \in Req, cookie \in BOOLEAN, drivers \in FetchResults :
                 FreeSlot(r) /\ StartGenerate(r, "Jane", "1", cookie, drivers)
  \/ ~Ended /\ \E r \in Req : GenerateQueryReturns(r)
  \/ ~Ended /\ \E r \in Req : GenerateUpdateReturns(r)
  \/ ~Ended /\ \E r \in Req : GenerateSetReturns(r)
  \/ ~Ended /\ \E r \in Req, cookie \in BOOLEAN :
                 /\ \A q \in Req : req[q].pc = "idle"
                 /\ FreeSlot(r) /\ StartCancel(r, "Jane", cookie)
  \/ ~Ended /\ \E r \in Req : CancelQueryReturns(r)
  \/ ~Ended /\ \E r \in Req : CancelUpdateReturns(r)
  \/ ~Ended /\ SweepFire
  \/ ~Ended /\ SweepQueryReturns
  \/ ~Ended /\ SweepUpdateReturns

\* The clock keeps advancing, the timer keeps firing and the store calls of
\* the sweep return.  In the code none of these waits for a response to be
\* delivered; in the model each is interrupted by the observation of an
\* ended handler (Ended), so the fairness on them is strong.
LiveFairness ==
  /\ WF_vars(\E r \in Req : Finish(r))
  /\ WF_vars(SweepReturn)
  /\ SF_vars(~Ended /\ Tick)
  /\ SF_vars(~Ended /\ SweepFire)
  /\ SF_vars(~Ended /\ SweepQueryReturns)
  /\ SF_vars(~Ended /\ SweepUpdateReturns)

SpecLive == Init /\ [][NextLive]_vars /\ LiveFairness

\* The in-memory server: generate-link requests interleave at their fetch,
\* cancel-link and the cleanup run between them.
NextMem ==
  \/ \E r \in Req : Finish(r)
  \/ ~Ended /\ Tick
  \/ ~Ended /\ \E ok \in BOOLEAN : Login(ok)
  \/ ~Ended /\ Logout
  \/ ~Ended /\ \E r \in Req, d \in DriverInputs, h \in HoursInputs,
                 cookie \in BOOLEAN :
                 FreeSlot(r) /\ MemStartGenerate(r, d, h, cookie)
  \/ ~Ended /\ \E r \in Req, drivers \in MemFetchResults :
                 MemGenerateResume(r, drivers)
  \/ ~Ended /\ \E r \in Req, d \in DriverInputs, cookie \in BOOLEAN :
                 FreeSlot(r) /\ MemCancel(r, d, cookie)
  \/ ~Ended /\ MemCleanup

SpecMem == Init /\ [][NextMem]_vars

(* ---------------------------- properties ------------------------------- *)

\* the documents of driverName with active = true
ActiveIds(driverName) ==
  {id \in Stored(trackingLinks) :
     trackingLinks[id].driverName = driverName /\ trackingLinks[id].active}

\* handler r has just responded to a request of kind op with status
Responded(r, op, status) ==
  req[r].op = op /\ req[r].pc = "done" /\ req[r].status = status

\* C1: when a createLink that does not overlap any other operation has just
\* succeeded, the record it created is the only active record of its driver:
\* the record of an earlier successful createLink for that driver is inactive.
C1_SecondCreateSupersedes ==
  \A r \in Req :
    Responded(r, "generate", 200) =>
      \A id \in Stored(trackingLinks) :
        trackingLinks[id].driverName = req[r].driverName =>
          (trackingLinks[id].active <=> id = req[r].linkId)

\* A createLink has just succeeded after finding and deactivating the record
\* of an earlier createLink for the same driver.
C1_Witness ==
  \E r \in Req :
    /\ Responded(r, "generate", 200)
    /\ Len(req[r].docs) = 1
    /\ req[r].docs[1] # req[r].linkId
    /\ trackingLinks[req[r].docs[1]].driverName = req[r].driverName
    /\ ~trackingLinks[req[r].docs[1]].active
    /\ trackingLinks[req[r].linkId].active

\* C2: when createLink, cancelLink and the sweep do not overlap, every driver
\* name has at most one record with active = true in every reachable state.
C2_AtMostOneActive ==
  \A d \in DriverInputs : Cardinality(ActiveIds(d)) <= 1

\* A driver with a history of three records, one of them active.
C2_Witness ==
  \E d \in DriverInputs :
    /\ Cardinality(ActiveIds(d)) = 1
    /\ Cardinality({id \in Stored(trackingLinks) :
                      trackingLinks[id].driverName = d}) = MaxLinks

\* C3: the insert that ends a createLink is unconditional: it leaves every
\* stored record as it is, so a record of the same driver that became active
\* after this call's query stays active beside the new one.
C3_InsertIsNotCheckAndSet ==
  [][\A r \in Req :
       (/\ req[r].op = "generate" /\ req[r].pc = "set"
        /\ req'[r].pc = "done" /\ req'[r].status = 200)
       => /\ \A id \in Stored(trackingLinks) :
               trackingLinks'[id] = trackingLinks[id]
          /\ trackingLinks'[req'[r].linkId].active]_vars

\* A createLink whose query found no active link has just inserted its
\* record, and its driver now has two active records.
C3_Witness ==
  \E r \in Req :
    /\ Responded(r, "generate", 200)
    /\ req[r].docs = <<>>
    /\ Cardinality(ActiveIds(req[r].driverName)) = 2

\* C4: a public route that has just answered with driver data read a record
\* whose active flag was true.
C4_InactiveNeverResolved ==
  \A r \in Req :
    (req[r].op \in Routes /\ req[r].pc = "done" /\ req[r].body = "driver")
      => req[r].link.active

\* the answer of a route for a link that is expired or inactive
ExpiredAnswer(q) ==
  \/ q.op = "track" /\ q.status = 403 /\ q.body = "Link expired or inactive"
  \/ q.op = "apiTrack" /\ q.status = 404 /\ q.body = "Expired link"

\* C5: a public route that read an existing record at a time later than its
\* expiresAt has answered with the expired-link error, whatever the flag.
C5_ExpiredByTime ==
  \A r \in Req :
    (/\ req[r].op \in Routes /\ req[r].pc = "done"
     /\ req[r].link.exists /\ req[r].at > req[r].link.expiresAt)
      => ExpiredAnswer(req[r])

\* A route has just rejected a record that is past its expiresAt and still
\* active.
C5_Witness ==
  \E r \in Req :
    /\ req[r].op \in Routes /\ req[r].pc = "done"
    /\ req[r].link.exists /\ req[r].link.active
    /\ req[r].link.createdAt < req[r].link.expiresAt
    /\ req[r].at > req[r].link.expiresAt
    /\ trackingLinks[req[r].linkId].active
    /\ ExpiredAnswer(req[r])

\* C6: a sweep run that ended normally and overlapped nothing has set
\* active = false on exactly the records that were active with expiresAt < now
\* when it queried, and changed nothing else; a run that immediately follows
\* such a run finds no record and changes nothing.
C6_SweepExactAndIdempotent ==
  (sweep.pc = "done" /\ sweep.clean) =>
    /\ \A id \in LinkIds :
         trackingLinks[id] =
           IF /\ sweep.pre[id].exists /\ sweep.pre[id].active
              /\ sweep.pre[id].expiresAt < sweep.now
             THEN [sweep.pre[id] EXCEPT !.active = FALSE]
             ELSE sweep.pre[id]
    /\ sweep.rerun => (sweep.docs = <<>> /\ trackingLinks = sweep.pre)

\* A sweep run has just deactivated an expired record and left an active
\* record with a later expiresAt as it was.
C6_Witness ==
  /\ sweep.pc = "done" /\ sweep.clean
  /\ Len(sweep.docs) >= 1
  /\ ~trackingLinks[sweep.docs[1]].active
  /\ \E id \in Stored(trackingLinks) :
       trackingLinks[id].active /\ trackingLinks[id].expiresAt >= sweep.now

\* A sweep run has just deactivated an expired record and left an inactive
\* record as it was.
C6_InactiveUntouched ==
  /\ sweep.pc = "done" /\ sweep.clean
  /\ Len(sweep.docs) >= 1
  /\ \E id \in Stored(trackingLinks) :
       sweep.pre[id].exists /\ ~sweep.pre[id].active

\* A sweep run that immediately followed a run which deactivated a record
\* has just ended.
C6_RerunReached ==
  /\ sweep.pc = "done" /\ sweep.clean /\ sweep.rerun
  /\ \E id \in Stored(trackingLinks) :
       ~trackingLinks[id].active /\ trackingLinks[id].expiresAt < sweep.now

\* C7: when a sweep run has ended, every record of its snapshot whose own
\* update did not fail has been deactivated.
C7_SweepSurvivesFailure ==
  sweep.pc = "done" =>
    \A k \in 1..Len(sweep.docs) :
      sweep.docs[k] \notin sweep.failed => ~trackingLinks[sweep.docs[k]].active

\* the store call of the handler threw: there is no answer of the handler
StoreThrew(q) == q.status = 0 \/ q.body = "Something broke!"

\* C8: when the query of a cancelLink returns while its driver has no active
\* record, the call answers 404 and no record changes.
C8_CancelWithoutActive ==
  [][\A r \in Req :
       (/\ req[r].op = "cancel" /\ req[r].pc = "query" /\ req'[r].pc # "query"
        /\ ActiveIds(req[r].driverName) = {}
        /\ ~StoreThrew(req'[r]))
       => /\ req'[r].pc = "done" /\ req'[r].status = 404
          /\ req'[r].body = "No active tracking link"
          /\ trackingLinks' = trackingLinks]_vars

\* A cancelLink has just been rejected for a driver all of whose links are
\* inactive.
C8_Witness ==
  \E r \in Req :
    /\ Responded(r, "cancel", 404)
    /\ ActiveIds(req[r].driverName) = {}
    /\ \E id \in Stored(trackingLinks) :
         trackingLinks[id].driverName = req[r].driverName

\* C9: when a cancelLink that overlapped no createLink for its driver has just
\* succeeded, the driver has no active record.
C9_CancelDeactivatesAll ==
  \A r \in Req :
    (Responded(r, "cancel", 200) /\ ~req[r].overlap)
      => ActiveIds(req[r].driverName) = {}

\* A cancelLink that found two active records of its driver has just
\* succeeded.
C9_Witness ==
  \E r \in Req :
    /\ Responded(r, "cancel", 200) /\ ~req[r].overlap
    /\ Len(req[r].docs) = 2
    /\ ActiveIds(req[r].driverName) = {}

\* C10: a stored record stays stored, keeps its driverName, createdAt and
\* expiresAt, and its active flag never goes from false to true; a record is
\* active when it is inserted.
C10_Monotonic ==
  [][\A id \in LinkIds :
       /\ trackingLinks[id].exists =>
            /\ trackingLinks'[id].exists
            /\ trackingLinks'[id].driverName = trackingLinks[id].driverName
            /\ trackingLinks'[id].createdAt = trackingLinks[id].createdAt
            /\ trackingLinks'[id].expiresAt = trackingLinks[id].expiresAt
            /\ (~trackingLinks[id].active => ~trackingLinks'[id].active)
       /\ (~trackingLinks[id].exists /\ trackingLinks'[id].exists)
            => trackingLinks'[id].active]_vars

\* The collection is full: some records have been deactivated by a cancel, a
\* superseding create or the sweep, and one is active.
C10_Witness ==
  /\ Stored(trackingLinks) = LinkIds
  /\ \E id \in LinkIds : ~trackingLinks[id].active
  /\ \E id \in LinkIds : trackingLinks[id].active

\* the answer of a route for an id no document has
InvalidAnswer(q) ==
  \/ q.op = "track" /\ q.status = 403 /\ q.body = "Invalid or expired link"
  \/ q.op = "apiTrack" /\ q.status = 404 /\ q.body = "Invalid link"

\* C11: when the read of a public route returns for an id that no document
\* has, the route answers with the invalid-link error (403 on /track, 404 on
\* /api/track) without having called the upstream fetch, and the store is as
\* it was: no record has been created.
C11_UnknownIdInvalid ==
  [][\A r \in Req :
       (/\ req[r].op \in Routes /\ req[r].pc = "get" /\ req'[r].pc # "get"
        /\ ~trackingLinks[req[r].linkId].exists
        /\ ~StoreThrew(req'[r]))
       => /\ req'[r].pc = "done" /\ InvalidAnswer(req'[r])
          /\ req'[r].drivers = {} /\ ~req'[r].link.exists
          /\ trackingLinks' = trackingLinks]_vars

\* A route has just rejected an id that no document has while the
\* collection holds another record.
C11_Witness ==
  \E r \in Req :
    /\ req[r].op \in Routes /\ req[r].pc = "done"
    /\ InvalidAnswer(req[r])
    /\ ~trackingLinks[req[r].linkId].exists
    /\ Stored(trackingLinks) # {}

\* C12: every stored record has expiresAt strictly later than createdAt, and
\* a createLink that has just succeeded carried a positive expirationHours
\* and inserted a record that is not yet expired.
C12_ExpiresAfterCreation ==
  /\ \A id \in Stored(trackingLinks) :
       trackingLinks[id].expiresAt > trackingLinks[id].createdAt
  /\ \A r \in Req :
       Responded(r, "generate", 200) =>
         /\ ParseInt(req[r].hours) > 0
         /\ trackingLinks[req[r].linkId].expiresAt > now

\* C13: a createLink whose upstream fetch failed has been rejected with
\* 404 'Driver not found', whatever the driver name: it does not go on to the
\* store and does not succeed.
C13_FetchFailureRejects ==
  \A r \in Req :
    (req[r].op = "generate" /\ req[r].drivers = MockDrivers)
      => /\ req[r].pc = "done" /\ req[r].status = 404
         /\ req[r].body = "Driver not found"

\* C14: the step in which a createLink is rejected with 400 (a field is
\* missing) or 404 (the driver is not in the fetched list) leaves the store
\* as it was; it is the only step of that call.
C14_RejectedCreateWritesNothing ==
  [][\A r \in Req :
       (/\ req'[r].op = "generate" /\ req'[r].pc = "done"
        /\ req'[r].status \in {400, 404}
        /\ req[r].pc # "done")
       => /\ req[r].pc = "idle"
          /\ trackingLinks' = trackingLinks]_vars

\* A createLink for a driver who has an active record has just been rejected
\* with 404, and the record is still active.
C14_Witness ==
  \E r \in Req :
    /\ Responded(r, "generate", 404)
    /\ ActiveIds(req[r].driverName) # {}

\* A createLink with a missing field has just been rejected with 400 while
\* the collection holds an active record.
C14_MissingField ==
  \E r \in Req :
    /\ Responded(r, "generate", 400)
    /\ \E id \in Stored(trackingLinks) : trackingLinks[id].active

\* C15: the record a successful createLink stored carries the driver name of
\* the request and the expiresAt the call returned (the time of the call plus
\* expirationHours); a public route that read an active record while the
\* clock had not advanced past its expiresAt since its creation has fetched
\* the upstream list and, when the list has the record's driver, has
\* answered 200 with the driver's data and the stored record; a route that
\* read a record at a time later than its expiresAt has answered with the
\* expired-link error.
C15_ResolveAfterCreate ==
  /\ \A r \in Req :
       Responded(r, "generate", 200) =>
         trackingLinks[req[r].linkId] =
           NewLink(req[r].driverName, req[r].at,
                   req[r].at + ParseInt(req[r].hours))
  /\ \A r \in Req :
       (/\ req[r].op \in Routes /\ req[r].pc = "done" /\ req[r].link.exists
        /\ req[r].link.active
        /\ ~(/\ req[r].link.createdAt <= req[r].link.expiresAt
             /\ req[r].link.expiresAt < req[r].at))
         => /\ req[r].drivers \in FetchResults
            /\ req[r].link.driverName \in req[r].drivers
                 => /\ req[r].status = 200 /\ req[r].body = "driver"
                    /\ req[r].link = trackingLinks[req[r].linkId]
  /\ \A r \in Req :
       (/\ req[r].op \in Routes /\ req[r].pc = "done" /\ req[r].link.exists
        /\ req[r].at > req[r].link.expiresAt)
         => ExpiredAnswer(req[r])

\* C16: the step of a public route, whatever its outcome (driver data, an
\* invalid or expired link, a missing driver, a read that throws), leaves
\* every record as it was: a record read past its expiresAt keeps the
\* active flag it had.
C16_ResolveReadsOnly ==
  [][\A r \in Req :
       (req[r].op \in Routes /\ req[r].pc = "get" /\ req'[r].pc # "get")
         => trackingLinks' = trackingLinks]_vars

\* GET /track has just rejected a record that is past its expiresAt, and the
\* record is still stored with active = true.
C16_Witness ==
  \E r \in Req :
    /\ Responded(r, "track", 403)
    /\ req[r].link.exists
    /\ req[r].at > req[r].link.expiresAt
    /\ trackingLinks[req[r].linkId].exists
    /\ trackingLinks[req[r].linkId].active

\* C17: a POST /generate-link or POST /cancel-link that arrives while no
\* session is established (before a successful login, or after a logout
\* destroyed the session) is answered with the redirect to /login in its
\* first step, so it never reaches a store call, and every record is as it
\* was; and a step changes the store only if it is a step of the sweep or of
\* a createLink or cancelLink that passed requireAuth.
C17_WritesNeedSession ==
  [][/\ \A r \in Req :
          (/\ req[r].pc = "idle" /\ req'[r].op \in {"generate", "cancel"}
           /\ ~sessionUser)
          => /\ req'[r].pc = "done"
             /\ req'[r].status = 302 /\ req'[r].body = "/login"
             /\ trackingLinks' = trackingLinks
     /\ trackingLinks' # trackingLinks
          => \/ sweep.pc = "update"
             \/ \E r \in Req : /\ req[r].op \in {"generate", "cancel"}
                                /\ InFlight(req[r])]_vars

\* After a logout a POST /cancel-link has just been redirected to /login,
\* and the active record in the collection is as it was.
C17_Witness ==
  \E r \in Req :
    /\ Responded(r, "cancel", 302)
    /\ ~sessionUser
    /\ \E id \in Stored(trackingLinks) : trackingLinks[id].active

\* Before any login a POST /generate-link has just been redirected to
\* /login.
C17_BeforeLogin ==
  \E r \in Req :
    /\ Responded(r, "generate", 302)
    /\ ~sessionUser
    /\ Stored(trackingLinks) = {}

\* C18: a createLink, cancelLink or resolve one of whose store calls threw
\* has ended with an HTTP 500 response.
C18_StoreFailureIs500 ==
  \A r \in Req :
    req[r].threw => (req[r].pc = "done" /\ req[r].status = 500)

\* the ids of a snapshot
IdsOf(docs) == {docs[k] : k \in 1..Len(docs)}

\* C20 as stated: when a createLink that overlaps no other operation has
\* ended with 500 after its query returned, the active records of its driver
\* are the ones the query found, that is the ones active before the call.
C20_AllOrNothing ==
  \A r \in Req :
    (Responded(r, "generate", 500) /\ req[r].i >= 1)
      => ActiveIds(req[r].driverName) = IdsOf(req[r].docs)

\* C20: when a createLink that overlaps no other operation has ended with
\* 500, it has inserted no record, and the active records of its driver are
\* the ones its query found minus the ones its loop had already updated:
\* after a failed insert the driver has no active record at all.
C20_FailureKeepsLoopProgress ==
  \A r \in Req :
    Responded(r, "generate", 500) =>
      /\ req[r].linkId = 0
      /\ req[r].i >= 1 =>
           ActiveIds(req[r].driverName) =
             {req[r].docs[k] : k \in req[r].i..Len(req[r].docs)}

\* A createLink has just ended with 500 at its insert, after deactivating the
\* active record of its driver: the driver is left without an active record.
C20_Witness ==
  \E r \in Req :
    /\ Responded(r, "generate", 500)
    /\ Len(req[r].docs) >= 1
    /\ req[r].i = Len(req[r].docs) + 1
    /\ ActiveIds(req[r].driverName) = {}

\* C19: while the clock keeps advancing, the timer keeps firing and no store
\* call fails, every stored record whose expiresAt the clock outlives (it
\* stops at MaxTime) eventually has active = false.
C19_ExpiredEventuallyInactive ==
  \A id \in LinkIds :
    (trackingLinks[id].exists /\ trackingLinks[id].expiresAt < MaxTime)
      ~> ~trackingLinks[id].active

\* A sweep run has just deactivated a record that no cancel and no later
\* createLink had deactivated before its expiresAt passed.
C19_Witness ==
  /\ sweep.pc = "done"
  /\ \E k \in 1..Len(sweep.docs) :
       /\ sweep.pre[sweep.docs[k]].active
       /\ ~trackingLinks[sweep.docs[k]].active
       /\ trackingLinks[sweep.docs[k]].expiresAt < sweep.now

\* the links of driverName in the Map trackingLinks
LinksOf(driverName) ==
  {id \in Stored(trackingLinks) : trackingLinks[id].driverName = driverName}

\* C21: in the in-memory server, in every reachable state driverToLinkId
\* maps a driver to a link exactly when trackingLinks has that link with
\* that driverName, so a driver has at most one stored link; and a
\* generate-link whose fetch returns while its driver has a link that is not
\* yet expired (now < expiresAt) is rejected with 400 and changes neither
\* map, also when another generate-link for the driver was in flight with it.
C21_MapsConsistent ==
  /\ [](/\ \A d \in DriverNames : \A id \in LinkIds :
             driverToLinkId[d] = id <=> id \in LinksOf(d)
        /\ \A d \in DriverNames : Cardinality(LinksOf(d)) <= 1
        /\ \A id \in Stored(trackingLinks) :
             trackingLinks[id].driverName \in DriverNames)
  /\ [][\A r \in Req :
          (/\ req[r].op = "generate" /\ req[r].pc = "fetch"
           /\ req'[r].pc = "done"
           /\ req[r].driverName \in req'[r].drivers
           /\ \E id \in LinksOf(req[r].driverName) :
                now < trackingLinks[id].expiresAt)
          => /\ req'[r].status = 400
             /\ req'[r].body = "Tracking link already exists for this driver"
             /\ trackingLinks' = trackingLinks
             /\ driverToLinkId' = driverToLinkId]_vars

\* Of two generate-link requests for one driver that waited for their fetch
\* together, the second has just been rejected with 400: the link the first
\* stored in this hour is the driver's only link.
C21_Witness ==
  \E r \in Req :
    /\ Responded(r, "generate", 400)
    /\ req[r].body = "Tracking link already exists for this driver"
    /\ req[r].overlap
    /\ LinksOf(req[r].driverName) = {driverToLinkId[req[r].driverName]}
    /\ trackingLinks[driverToLinkId[req[r].driverName]].createdAt = now

\* The cleanup has deleted the expired link of a driver from both maps while
\* another driver keeps a link.
C21_CleanedUp ==
  /\ \E d \in DriverNames : driverToLinkId[d] = 0 /\ LinksOf(d) = {}
  /\ \E d \in DriverNames : driverToLinkId[d] # 0
  /\ now = MaxTime
  /\ \A id \in Stored(trackingLinks) : now <= trackingLinks[id].expiresAt

====
